---- MODULE Spec2Model ----
(***************************************************************************)
(* A model of the SpectroscopicAnalysis peak-finding pipeline:             *)
(*   src/src/analysis.py, src/src/chris.py   intensity normalisation, Fano *)
(*                                           fit, peak extraction          *)
(*   src/src/userinput.py                    interactive region selection  *)
(*   src/spectrum_peakfinder.py              the per-file script loop      *)
(*   src/src/filepaths.py                    what a file name says, and    *)
(*                                           the background of a sample    *)
(*   src/spectroscopic_ellipsometry.py       woollamVASE                   *)
(*                                                                         *)
(* Numbers.  The arrays come from numpy.genfromtxt, so every sample is a   *)
(* numpy float64 and division follows IEEE-754: x/0 is +-inf, 0/0 is nan,  *)
(* and no exception is raised.  A number is a pair <<n, d>>: the rational  *)
(* n/d in lowest terms when d > 0, and <<1,0>> = +inf, <<-1,0>> = -inf,    *)
(* <<0,0>> = nan.  Rounding is not modelled: arithmetic is exact.          *)
(***************************************************************************)
EXTENDS Integers, Sequences, FiniteSets, TLC

VARIABLES
    \* ---- normaliser harness (analysis.py lines 9-94) ----
    nRaw,       \* raw intensity array read from a file
    nTime,      \* integration time parsed from the file name
    nOp,        \* last normaliser function applied: "none", "time", "max", "bg"
    nIn,        \* the array that function was applied to
    nOut,       \* the array it returned
    nBg,        \* background intensity array, <<>> when none was read
    nBgTime,    \* background integration time
    \* ---- region selector harness (userinput.py) ----
    tWavelength, \* x_array of the current trimindices call
    tSel,        \* the module globals x1, x2: <<>> (not set) or <<x1, x2>>
    tPc,         \* "idle"; while plt.show() blocks, "show" until
                 \* lineselect_callback has run and "selected" after
    tOut,        \* outcome of the last finished trimindices call
    tCalls,      \* trimindices calls started so far
    \* ---- Fano fitter harness (analysis.py, chris.py) ----
    fVariant,    \* "analysis" or "chris": whose functions are called
    fWavelength, \* the fit window's wavelengths
    fIntensity,  \* the fit window's intensities
    fPlot,       \* chris only: the plot_figure argument
    fPc,         \* "start", "fitted" (get_fano_parameters done), "peak"
    fSolver,     \* what opt.curve_fit did in get_fano_parameters
    fGuess,      \* the initial guesses handed to opt.curve_fit
    fFit,        \* outcome of get_fano_parameters
    fAnnot,      \* <<peak, error>> handed to fanofitplot, <<>> if not called
    fPeak,       \* outcome of get_peak_wavelength
    \* ---- lineshape harness (fano_resonance of analysis.py, chris.py) ----
    lVariant,    \* "analysis" or "chris": whose fano_resonance is called
    lX,          \* the wavelength it is evaluated at
    lParams,     \* its five parameters, in its signature's order
    lPc,         \* "start" or "done"
    lOut,        \* the value it returned
    \* ---- spectrum_peakfinder.py, batch_peakfinder.py and their files ----
    script,      \* which script is run: "spectrum_peakfinder" loops over
                 \* files, "batch_peakfinder" over batches of files
    pc,          \* "off" (no process), "loop" (top of the for loop),
                 \* "show" (inside plt.show())
    runs,        \* script runs started so far
    idx,         \* position of the for loop in files, 1-based
    graphPaths,  \* graph_paths["out_paths"] of the running process
    peakDict,    \* peak_dictionary.json on disk
    resultExists, \* which <file_name>_Results.json files exist
    writes,      \* per input: save_json_dicts calls on its result file
    fits,        \* per input: get_fano_parameters calls
    exc,         \* the exception that ended the last run, or "none"
    last,        \* what the last calc_fanowavelength call did
    \* ---- file-name harness (filepaths.py) ----
    mOp,         \* "time" (get_integration_time) or "background"
                 \* (find_background and the batch's use of what it found)
    mName,       \* the file name: its parts between '_', each a sequence
                 \* of characters
    mDir,        \* the file names extractfile finds in the background
                 \* directory, in its order
    mPc,         \* "start" or "done"
    mOut,        \* outcome of the call
    \* ---- woollamVASE (spectroscopic_ellipsometry.py) ----
    eModel,      \* fit["Model"] of the fit file
    eFitFile,    \* whether <file_name>.json is a file
    eWavelength, \* the wavelength column of the data file
    ePc,         \* "start" or "done"
    eData,       \* the items the data argument of ellips_save yields
    eFile,       \* the rows of <file_name>_Data.txt, <<>> if not written
    eOut         \* out_files["data_path"] as returned

normVars == <<nRaw, nTime, nOp, nIn, nOut, nBg, nBgTime>>
trimVars == <<tWavelength, tSel, tPc, tOut, tCalls>>
fitVars == <<fVariant, fWavelength, fIntensity, fPlot, fPc, fSolver, fGuess,
             fFit, fAnnot, fPeak>>

scriptVars == <<script, pc, runs, idx, graphPaths, peakDict, resultExists, writes,
                fits, exc, last>>

lineVars == <<lVariant, lX, lParams, lPc, lOut>>

metaVars == <<mOp, mName, mDir, mPc, mOut>>

ellipsVars == <<eModel, eFitFile, eWavelength, ePc, eData, eFile, eOut>>

vars == <<normVars, trimVars, fitVars, lineVars, scriptVars, metaVars,
          ellipsVars>>

\* what the actions of one harness leave alone
notNorm == <<trimVars, fitVars, lineVars, scriptVars, metaVars, ellipsVars>>
notTrim == <<normVars, fitVars, lineVars, scriptVars, metaVars, ellipsVars>>
notFit == <<normVars, trimVars, lineVars, scriptVars, metaVars, ellipsVars>>
notLine == <<normVars, trimVars, fitVars, scriptVars, metaVars, ellipsVars>>
notMeta == <<normVars, trimVars, fitVars, lineVars, scriptVars, ellipsVars>>
notEllips == <<normVars, trimVars, fitVars, lineVars, scriptVars, metaVars>>

-----------------------------------------------------------------------------
(* Bounds of the model *)

MaxLen == 3          \* longest intensity array of the normaliser harness
MaxIntensity == 2    \* raw samples are the integers -MaxIntensity..MaxIntensity
MaxTime == 3         \* integration times are k/2 seconds, k in -1..MaxTime
MaxWave == 5         \* wavelengths are the integers 1..MaxWave
MaxCalls == 2        \* trimindices calls in one process
MaxWin == 6          \* longest fit window of the fitter harness
MaxParam == 2        \* a converged fit's parameters are in 1..MaxParam
MaxErr == 1          \* and its standard errors in 0..MaxErr
MaxFiles == 2        \* entries of peak_dict["data_files"]
MaxRuns == 2         \* runs of the script
MaxLine == 1         \* a lineshape's arguments are the integers -1..MaxLine

-----------------------------------------------------------------------------
(* IEEE-754 style arithmetic on <<n, d>> *)

Abs(x) == IF x < 0 THEN -x ELSE x

Sign(x) == IF x < 0 THEN -1 ELSE IF x > 0 THEN 1 ELSE 0

RECURSIVE GCD(_, _)
GCD(a, b) == IF b = 0 THEN a ELSE GCD(b, a % b)

\* n/d with d >= 0, in lowest terms; d = 0 gives +-inf or nan
Num(n, d) ==
    IF d = 0 THEN <<Sign(n), 0>>
    ELSE LET g == GCD(Abs(n), d) IN <<n \div g, d \div g>>

NaN == <<0, 0>>
Inf == <<1, 0>>
Zero == <<0, 1>>
One == <<1, 1>>

IsNaN(x) == x = NaN
IsFinite(x) == x[2] > 0

FloatMul(x, y) ==
    IF IsNaN(x) \/ IsNaN(y) THEN NaN ELSE Num(x[1] * y[1], x[2] * y[2])

\* 1/y: 1/0 = +inf, 1/inf = 0
Recip(y) ==
    IF IsNaN(y) THEN NaN
    ELSE IF y[2] = 0 THEN Zero
    ELSE IF y[1] = 0 THEN Inf
    ELSE <<Sign(y[1]) * y[2], Abs(y[1])>>

\* x / y on float64: never raises
FloatDiv(x, y) == FloatMul(x, Recip(y))

\* x + y: inf + -inf is nan
FloatAdd(x, y) ==
    IF IsNaN(x) \/ IsNaN(y) THEN NaN
    ELSE IF x[2] = 0 /\ y[2] = 0 THEN (IF x[1] = y[1] THEN x ELSE NaN)
    ELSE IF x[2] = 0 THEN x
    ELSE IF y[2] = 0 THEN y
    ELSE Num(x[1] * y[2] + y[1] * x[2], x[2] * y[2])

FloatNeg(x) == <<-x[1], x[2]>>

FloatSub(x, y) == FloatAdd(x, FloatNeg(y))

AllFinite(s) == \A k \in 1..Len(s) : IsFinite(s[k])

\* x < y; False when either is nan
FloatLess(x, y) ==
    IF IsNaN(x) \/ IsNaN(y) THEN FALSE
    ELSE IF x[2] = 0 /\ y[2] = 0 THEN x[1] < y[1]
    ELSE x[1] * y[2] < y[1] * x[2]

\* Python's max(): keeps the first item and replaces it by a later item
\* only when item > current
RECURSIVE PyMaxFrom(_, _, _)
PyMaxFrom(s, k, cur) ==
    IF k > Len(s) THEN cur
    ELSE PyMaxFrom(s, k + 1, IF FloatLess(cur, s[k]) THEN s[k] ELSE cur)

PyMax(s) == PyMaxFrom(s, 2, s[1])

-----------------------------------------------------------------------------
(* analysis.py / chris.py: the intensity normaliser *)

\* a call's outcome: the exception it raised ("none" when it returned) and
\* the value it returned
Returned(v) == [exc |-> "none", val |-> v]
Raised(e) == [exc |-> e, val |-> <<>>]

\* a plausible slip: the docstring says "multiplying by integration time"
timecorrected_intensity_multiplies(raw_intensity, integration_time) ==
    Returned([k \in 1..Len(raw_intensity) |->
                 FloatMul(raw_intensity[k], integration_time)])

\* intensity = [raw / integration_time for raw in raw_intensity]
timecorrected_intensity(raw_intensity, integration_time) ==
    Returned([k \in 1..Len(raw_intensity) |->
                 FloatDiv(raw_intensity[k], integration_time)])

\* Python's min(), the mirror image of PyMax
RECURSIVE PyMinFrom(_, _, _)
PyMinFrom(s, k, cur) ==
    IF k > Len(s) THEN cur
    ELSE PyMinFrom(s, k + 1, IF FloatLess(s[k], cur) THEN s[k] ELSE cur)

\* a plausible slip: min() written for max()
normalise_intensity_by_min(raw_intensity) ==
    IF Len(raw_intensity) = 0 THEN Raised("ValueError")
    ELSE LET min_intensity == PyMinFrom(raw_intensity, 2, raw_intensity[1]) IN
         Returned([k \in 1..Len(raw_intensity) |->
                      FloatDiv(raw_intensity[k], min_intensity)])

\* max_intensity = max(raw_intensity); max() of an empty sequence raises
\* ValueError
normalise_intensity(raw_intensity) ==
    IF Len(raw_intensity) = 0 THEN Raised("ValueError")
    ELSE LET max_intensity == PyMax(raw_intensity) IN
         Returned([k \in 1..Len(raw_intensity) |->
                      FloatDiv(raw_intensity[k], max_intensity)])

\* a plausible slip: the integration factor upside down
bg_normal_intensity_inverted(intensity, background_intensity, integration_time, background_integration_time) ==
    IF integration_time = Zero THEN Raised("ZeroDivisionError")
    ELSE LET integration_factor ==
                 FloatDiv(background_integration_time, integration_time)
             n == Len(intensity)
             m == Len(background_intensity)
             At(a, k) == IF Len(a) = 1 THEN a[1] ELSE a[k]
         IN IF n # m /\ n # 1 /\ m # 1 THEN Raised("ValueError")
            ELSE Returned([k \in 1..(IF n = 1 THEN m ELSE n) |->
                     FloatDiv(At(intensity, k),
                              FloatMul(integration_factor,
                                       At(background_intensity, k)))])

\* a plausible slip: the parentheses left out,
\* intensity / integration_factor * background_intensity
bg_normal_intensity_unparenthesised(intensity, background_intensity, integration_time, background_integration_time) ==
    IF background_integration_time = Zero THEN Raised("ZeroDivisionError")
    ELSE LET integration_factor ==
                 FloatDiv(integration_time, background_integration_time)
             n == Len(intensity)
             m == Len(background_intensity)
             At(a, k) == IF Len(a) = 1 THEN a[1] ELSE a[k]
         IN IF n # m /\ n # 1 /\ m # 1 THEN Raised("ValueError")
            ELSE Returned([k \in 1..(IF n = 1 THEN m ELSE n) |->
                     FloatMul(FloatDiv(At(intensity, k), integration_factor),
                              At(background_intensity, k))])

\* a plausible slip: an augmented assignment (intensity /= ...), which
\* numpy carries out in the argument's own buffer
LeftInArgumentInPlace(argument, result) ==
    IF result.exc = "none" /\ Len(result.val) = Len(argument)
    THEN result.val ELSE argument

\* what a call leaves in an array it was handed: the three functions only
\* read their arguments; the list comprehensions and numpy's binary
\* operators build new objects for the result
LeftInArgument(argument, result) == argument

\* integration_factor = integration_time / background_integration_time is
\* a division of two Python floats and raises ZeroDivisionError; the arrays
\* are numpy arrays, divided element by element with numpy's broadcasting:
\* an array of length 1 is stretched, any other mismatch raises ValueError
bg_normal_intensity(intensity, background_intensity, integration_time, background_integration_time) ==
    IF background_integration_time = Zero THEN Raised("ZeroDivisionError")
    ELSE LET integration_factor ==
                 FloatDiv(integration_time, background_integration_time)
             n == Len(intensity)
             m == Len(background_intensity)
             At(a, k) == IF Len(a) = 1 THEN a[1] ELSE a[k]
         IN IF n # m /\ n # 1 /\ m # 1 THEN Raised("ValueError")
            ELSE Returned([k \in 1..(IF n = 1 THEN m ELSE n) |->
                     FloatDiv(At(intensity, k),
                              FloatMul(integration_factor,
                                       At(background_intensity, k)))])

-----------------------------------------------------------------------------
(* analysis.py / chris.py: the Fano fitter *)

\* a plausible slip: numerator and denominator exchanged
fano_resonance_swapped(x, x0, gamma, q, amplitude, damping) ==
    LET omega == FloatMul(Num(2, 1), FloatDiv(FloatSub(x, x0), gamma))
        qo == FloatAdd(q, omega)
        numerator == FloatAdd(FloatMul(qo, qo), damping)
        denominator == FloatAdd(One, FloatMul(omega, omega))
    IN FloatMul(amplitude, FloatDiv(denominator, numerator))

\* analysis.fano_resonance on float64 arguments
fano_resonance(x, x0, gamma, q, amplitude, damping) ==
    LET omega == FloatMul(Num(2, 1), FloatDiv(FloatSub(x, x0), gamma))
        qo == FloatAdd(q, omega)
        numerator == FloatAdd(FloatMul(qo, qo), damping)
        denominator == FloatAdd(One, FloatMul(omega, omega))
    IN FloatMul(amplitude, FloatDiv(numerator, denominator))

\* chris.fano_resonance on float64 arguments
chris_fano_resonance(x, amp, assym, res, gamma, off) ==
    LET shifted == FloatAdd(FloatMul(assym, gamma), FloatSub(x, res))
        numerator == FloatMul(shifted, shifted)
        denominator == FloatAdd(FloatMul(gamma, gamma),
                                FloatMul(FloatSub(x, res), FloatSub(x, res)))
    IN FloatAdd(FloatMul(amp, FloatDiv(numerator, denominator)), off)

\* the lineshape models have five parameters (len(initial_guesses))
NParams == 5

ZeroVector == [i \in 1..NParams |-> 0]

NoSolver == [kind |-> "not run", popt |-> <<>>, errors |-> <<>>]
NoFit == [fit |-> <<>>, errors |-> <<>>]
NoPeak == [peak |-> 0, error |-> 0]

\* np.argmax: the 0-based index of the first nan if there is one, otherwise
\* of the first greatest sample
RECURSIVE NpArgMaxFrom(_, _, _)
NpArgMaxFrom(s, k, best) ==
    IF k > Len(s) THEN best - 1
    ELSE IF IsNaN(s[best]) THEN best - 1
    ELSE NpArgMaxFrom(s, k + 1,
            IF IsNaN(s[k]) \/ FloatLess(s[best], s[k]) THEN k ELSE best)

NpArgMax(s) == NpArgMaxFrom(s, 2, 1)

\* where the resonance centre stands among the parameters curve_fit fits,
\* from the signatures fano_resonance(x, x0, gamma, q, amplitude, damping)
\* and fano_resonance(x, amp, assym, res, gamma, off); 1-based
CentreIndex(variant) == IF variant = "analysis" THEN 1 ELSE 3

\* np.argmin, the mirror image of NpArgMax on finite samples
RECURSIVE NpArgMinFrom(_, _, _)
NpArgMinFrom(s, k, best) ==
    IF k > Len(s) THEN best - 1
    ELSE NpArgMinFrom(s, k + 1, IF FloatLess(s[k], s[best]) THEN k ELSE best)

\* a plausible slip: np.argmin written for np.argmax
initial_guesses_at_minimum(variant, wavelength, intensity) ==
    LET centre == wavelength[NpArgMinFrom(intensity, 2, 1) + 1] IN
    IF variant = "analysis" THEN <<centre, "10", "5", "0.6", "1">>
    ELSE <<"1", "1", centre, "10", "1">>

\* [x, 10, 5, 0.6, 1] and [1, 1, x, 10, 1]; only the centre is data
initial_guesses(variant, wavelength, intensity) ==
    LET centre == wavelength[NpArgMax(intensity) + 1] IN
    IF variant = "analysis" THEN <<centre, "10", "5", "0.6", "1">>
    ELSE <<"1", "1", centre, "10", "1">>

\* chris.get_fano_parameters, the bounds tuple: the centre within 25 of
\* initial_peak, the shape factor within [-10, 10]
CentreBound == 25
ShapeBound == 10

\* the values a fitted parameter takes: small ones, and one that lies
\* further from every wavelength of a window than either bound allows.
\* curve_fit is called without bounds, so nothing confines its result
ParamValues == (1..MaxParam) \cup {MaxWin + CentreBound + 1}

\* what a run of the solver that starts can end with: five parameters and
\* five standard errors.  The first three entries, the ones the code reads
\* one by one, take every value; the last two are only ever copied
Converged ==
    {[kind |-> "converged",
      popt |-> <<p[1], p[2], p[3], 1, 1>>,
      errors |-> <<e[1], e[2], e[3], 0, 0>>] :
        p \in [1..3 -> ParamValues], e \in [1..3 -> 0..MaxErr]}

SolverRaises(e) == [kind |-> e, popt |-> <<>>, errors |-> <<>>]

\* opt.curve_fit(f, xdata, ydata, p0) without bounds (method lm):
\* non-finite data raise ValueError, fewer samples than parameters raise
\* TypeError, and a started solve either converges or gives up with
\* RuntimeError
curve_fit(xdata, ydata) ==
    IF ~AllFinite(ydata) THEN {SolverRaises("ValueError")}
    ELSE IF Len(ydata) < NParams THEN {SolverRaises("TypeError")}
    ELSE Converged \cup {SolverRaises("RuntimeError")}

\* a plausible slip: no except clause around curve_fit
analysis_get_fano_parameters_unguarded(wavelength, intensity, solved) ==
    IF Len(intensity) = 0 THEN [out |-> Raised("ValueError"), annot |-> <<>>]
    ELSE IF solved.kind # "converged"
         THEN [out |-> Raised(solved.kind), annot |-> <<>>]
    ELSE [out |-> Returned([fit |-> solved.popt, errors |-> solved.errors]),
          annot |-> <<solved.popt[1], solved.errors[1]>>]

\* analysis.get_fano_parameters, given what curve_fit did: the outcome and
\* the <<peak, error>> annotation handed to fanofitplot
analysis_get_fano_parameters(wavelength, intensity, solved) ==
    IF Len(intensity) = 0
    THEN \* np.argmax of an empty window, before the try
         [out |-> Raised("ValueError"), annot |-> <<>>]
    ELSE IF solved.kind \notin {"converged", "RuntimeError"}
    THEN \* only RuntimeError is caught
         [out |-> Raised(solved.kind), annot |-> <<>>]
    ELSE LET popt == IF solved.kind = "converged"
                     THEN solved.popt ELSE ZeroVector
             errors == IF solved.kind = "converged"
                       THEN solved.errors ELSE ZeroVector
             peak_wavelength == popt[1]
             peak_wavelength_error == errors[1]
         IN [out |-> Returned([fit |-> popt, errors |-> errors]),
             annot |-> <<peak_wavelength, peak_wavelength_error>>]

\* chris.get_fano_parameters: the same, with the centre third, and a call
\* of fanofitplot that leaves out its required plot_dict argument
chris_get_fano_parameters(wavelength, intensity, plot_figure, solved) ==
    IF Len(intensity) = 0
    THEN [out |-> Raised("ValueError"), annot |-> <<>>]
    ELSE IF solved.kind \notin {"converged", "RuntimeError"}
    THEN [out |-> Raised(solved.kind), annot |-> <<>>]
    ELSE LET popt == IF solved.kind = "converged"
                     THEN solved.popt ELSE ZeroVector
             errors == IF solved.kind = "converged"
                       THEN solved.errors ELSE ZeroVector
         IN IF plot_figure = "True"
            THEN [out |-> Raised("TypeError"), annot |-> <<>>]
            ELSE [out |-> Returned([fit |-> popt, errors |-> errors]),
                  annot |-> <<>>]

\* analysis.get_peak_wavelength: fit[0] and errors[1]
analysis_get_peak_wavelength(fano_parameters) ==
    [peak |-> fano_parameters.fit[1], error |-> fano_parameters.errors[2]]

\* chris.get_peak_wavelength: fit[2] and errors[2]
chris_get_peak_wavelength(fano_parameters) ==
    [peak |-> fano_parameters.fit[3], error |-> fano_parameters.errors[3]]

-----------------------------------------------------------------------------
(* Normaliser harness: the functions applied to bounded inputs *)

RECURSIVE SeqsUpTo(_, _)
SeqsUpTo(S, n) ==
    IF n = 0 THEN {<<>>}
    ELSE LET shorter == SeqsUpTo(S, n - 1) IN
         shorter \cup {Append(s, v) : s \in {t \in shorter : Len(t) = n - 1},
                                      v \in S}

IntensityValues == {Num(v, 1) : v \in -MaxIntensity..MaxIntensity}

RawArrays == SeqsUpTo(IntensityValues, MaxLen) \ {<<>>}

\* float(token) / 1000 of get_integration_time: any sign, zero included
IntegrationTimes == {Num(k, 2) : k \in -1..MaxTime}

NormIdle ==
    /\ nRaw = <<>>
    /\ nTime = One
    /\ nOp = "none"
    /\ nIn = <<>>
    /\ nOut = Returned(<<>>)
    /\ nBg = <<>>
    /\ nBgTime = One

TrimIdle ==
    /\ tWavelength = <<>>
    /\ tSel = <<>>
    /\ tPc = "idle"
    /\ tOut = Returned(<<>>)
    /\ tCalls = 0

NoCall == [file |-> 0, bg |-> "none", norm |-> "none", roi |-> <<>>,
           wavelength |-> <<>>, intensity |-> <<>>,
           solver |-> "not run", exc |-> "none"]

ScriptIdle ==
    /\ script = "spectrum_peakfinder"
    /\ pc = "off"
    /\ runs = 0
    /\ idx = 1
    /\ graphPaths = <<>>
    /\ peakDict = [ok |-> TRUE, out_paths |-> <<>>]
    /\ resultExists = {}
    /\ writes = <<>>
    /\ fits = <<>>
    /\ exc = "none"
    /\ last = NoCall

FitIdle ==
    /\ fVariant = "analysis"
    /\ fWavelength = <<>>
    /\ fIntensity = <<>>
    /\ fPlot = "False"
    /\ fPc = "start"
    /\ fSolver = NoSolver
    /\ fGuess = <<>>
    /\ fFit = Returned(NoFit)
    /\ fAnnot = <<>>
    /\ fPeak = Returned(NoPeak)

MetaIdle ==
    /\ mOp = "time"
    /\ mName = <<>>
    /\ mDir = <<>>
    /\ mPc = "start"
    /\ mOut = Returned(<<>>)

EllipsIdle ==
    /\ eModel = "Cauchy"
    /\ eFitFile = FALSE
    /\ eWavelength = <<>>
    /\ ePc = "start"
    /\ eData = <<>>
    /\ eFile = <<>>
    /\ eOut = ""

LineIdle ==
    /\ lVariant = "analysis"
    /\ lX = Zero
    /\ lParams = <<>>
    /\ lPc = "start"
    /\ lOut = Zero

InitNorm ==
    /\ MetaIdle
    /\ EllipsIdle
    /\ TrimIdle
    /\ FitIdle
    /\ LineIdle
    /\ ScriptIdle
    /\ nRaw \in RawArrays
    /\ nTime \in IntegrationTimes
    /\ nOp = "none"
    /\ nIn = <<>>
    /\ nOut = Returned(<<>>)
    /\ nBg = <<>>
    /\ nBgTime = One

\* anal.timecorrected_intensity(raw_intensity, integration_time)
TimeCorrect ==
    /\ nOp = "none"
    /\ nBg = <<>>
    /\ nOp' = "time"
    /\ nIn' = nRaw
    /\ nOut' = timecorrected_intensity(nRaw, nTime)
    /\ nRaw' = LeftInArgument(nRaw, nOut')
    /\ UNCHANGED <<nTime, nBg, nBgTime, notNorm>>

\* anal.normalise_intensity(...), on the raw array or, as in the pipeline,
\* on the time-corrected one
Normalise ==
    /\ nOp \in {"none", "time"}
    /\ nBg = <<>>
    /\ nOp' = "max"
    /\ nIn' = IF nOp = "none" THEN nRaw ELSE nOut.val
    /\ nOut' = normalise_intensity(nIn')
    /\ nRaw' = IF nOp = "none" THEN LeftInArgument(nRaw, nOut') ELSE nRaw
    /\ UNCHANGED <<nTime, nBg, nBgTime, notNorm>>

\* background spectra for a sample of n points: on the sample's axis
\* (flat, or doubled with a dark first point), a single point, and one
\* point too many
BackgroundArrays(n) ==
    {[k \in 1..n |-> One],
     [k \in 1..n |-> IF k = 1 THEN Zero ELSE Num(2, 1)],
     <<Num(2, 1)>>,
     [k \in 1..(n + 1) |-> One]}

\* integration times of background files
BackgroundTimes == {Num(-1, 2), Zero, One, Num(3, 2)}

\* io.read_GMR_file(background_path) and the background's
\* sample_information: the branch that normalises to a background
ReadBackground ==
    /\ nOp = "none"
    /\ nBg = <<>>
    /\ nBg' \in BackgroundArrays(Len(nRaw))
    /\ nBgTime' \in BackgroundTimes
    /\ UNCHANGED <<nRaw, nTime, nOp, nIn, nOut, notNorm>>

\* anal.bg_normal_intensity(raw_intensity, background_intensity, ...)
BgNormalise ==
    /\ nOp = "none"
    /\ nBg # <<>>
    /\ nOp' = "bg"
    /\ nIn' = nRaw
    /\ nOut' = bg_normal_intensity(nRaw, nBg, nTime, nBgTime)
    /\ nRaw' = LeftInArgument(nRaw, nOut')
    /\ nBg' = LeftInArgument(nBg, nOut')
    /\ UNCHANGED <<nTime, nBgTime, notNorm>>

NextNorm == TimeCorrect \/ Normalise \/ ReadBackground \/ BgNormalise

SpecNorm == InitNorm /\ [][NextNorm]_vars

-----------------------------------------------------------------------------
(* Properties of the normaliser *)

\* m is the greatest element of s
HasMaximum(s, m) ==
    /\ \E k \in 1..Len(s) : s[k] = m
    /\ \A k \in 1..Len(s) : s[k] = m \/ FloatLess(s[k], m)

C9_NonPositiveTimeRejected ==
    (nOp = "time" /\ ~FloatLess(Zero, nTime)) =>
        nOut.exc = "InvalidParameterError"

\* C10 as claimed: for any intensity sequence whose maximum is not zero, all
\* negative sequences included, the output of normalise_intensity has
\* maximum exactly 1.
C10_MaxIsOneWheneverMaxNonZero ==
    (nOp = "max" /\ AllFinite(nIn) /\ PyMax(nIn) # Zero) =>
        /\ nOut.exc = "none"
        /\ HasMaximum(nOut.val, One)

\* C10 as amended: for any sequence of finite intensities whose maximum is
\* positive, the output of normalise_intensity has maximum exactly 1.
C10_MaxIsOneWhenMaxPositive ==
    (nOp = "max" /\ AllFinite(nIn) /\ FloatLess(Zero, PyMax(nIn))) =>
        /\ nOut.exc = "none"
        /\ Len(nOut.val) = Len(nIn)
        /\ HasMaximum(nOut.val, One)

C10_Witness ==
    /\ nOp = "max"
    /\ AllFinite(nIn)
    /\ FloatLess(One, PyMax(nIn))
    /\ \E k \in 1..Len(nIn) : FloatLess(nIn[k], Zero)
    /\ HasMaximum(nOut.val, One)

\* C11: max-normalisation fails (DegenerateSignalError) when the maximum
\* of the intensities is 0, and returns no array for such an input.
C11_ZeroMaximumRejected ==
    (nOp = "max" /\ AllFinite(nIn) /\ PyMax(nIn) = Zero) => nOut.exc # "none"

\* C12: for arrays of equal length and positive integration times,
\* bg_normal_intensity returns, element by element,
\* intensity[k] / ((integration_time / background_integration_time) *
\* background_intensity[k]): the k-th output times t times background[k]
\* equals intensity[k] times tb, and a zero background sample gives the
\* infinity of the sample's sign (nan for 0 / 0).
C12_BackgroundNormalisationFormula ==
    (/\ nOp = "bg"
     /\ Len(nIn) = Len(nBg)
     /\ FloatLess(Zero, nTime)
     /\ FloatLess(Zero, nBgTime)) =>
        /\ nOut.exc = "none"
        /\ Len(nOut.val) = Len(nIn)
        /\ \A k \in 1..Len(nIn) :
              LET out == nOut.val[k]
                  a == nIn[k]
                  b == nBg[k]
              IN /\ out[1] * (a[2] * nBgTime[2] * nTime[1] * b[1])
                      = out[2] * (a[1] * nBgTime[1] * nTime[2] * b[2])
                 /\ IsFinite(out) <=> b # Zero
                 /\ b = Zero => out = <<Sign(a[1]), 0>>

C12_Witness ==
    /\ nOp = "bg"
    /\ Len(nIn) = Len(nBg)
    /\ Len(nIn) >= 2
    /\ FloatLess(Zero, nTime)
    /\ FloatLess(Zero, nBgTime)
    /\ nTime # nBgTime
    /\ \E k \in 1..Len(nIn) :
          /\ nBg[k] \notin {Zero, One}
          /\ nIn[k] # Zero
          /\ nOut.val[k] # nIn[k]

\* C13: background normalisation fails (InvalidParameterError) if the
\* sample's or the background's integration time is zero or negative.
C13_NonPositiveTimesRejected ==
    (nOp = "bg" /\ (~FloatLess(Zero, nTime) \/ ~FloatLess(Zero, nBgTime))) =>
        nOut.exc # "none"

\* C14: a background whose length differs from the sample's, a background
\* of one point included, makes the normalisation fail; it is never
\* broadcast or truncated into a normalised spectrum.
C14_LengthMismatchRejected ==
    (nOp = "bg" /\ Len(nIn) # Len(nBg)) => nOut.exc # "none"

\* the background with every element doubled
Doubled(background_intensity) ==
    [k \in 1..Len(background_intensity) |->
        FloatMul(Num(2, 1), background_intensity[k])]

\* C15: bg_normal_intensity is scale-covariant in the background: with
\* every background element doubled the call ends the same way and every
\* element of its output is half of what it was.
C15_BackgroundScaleCovariant ==
    nOp = "bg" =>
        LET twice == bg_normal_intensity(nIn, Doubled(nBg), nTime, nBgTime)
        IN /\ twice.exc = nOut.exc
           /\ Len(twice.val) = Len(nOut.val)
           /\ \A k \in 1..Len(nOut.val) :
                 twice.val[k] = FloatMul(Num(1, 2), nOut.val[k])

C15_Witness ==
    /\ nOp = "bg"
    /\ nOut.exc = "none"
    /\ Len(nIn) >= 2
    /\ nTime # nBgTime
    /\ \E k \in 1..Len(nOut.val) :
          /\ IsFinite(nOut.val[k])
          /\ nOut.val[k] # Zero
    /\ \E k \in 1..Len(nOut.val) : ~IsFinite(nOut.val[k])

-----------------------------------------------------------------------------
(* userinput.py: interactive region selection *)

\* np.argmin of the signed differences: a plausible slip, np.abs forgotten
RECURSIVE ArgMinSignedFrom(_, _, _, _)
ArgMinSignedFrom(x_array, x, k, best) ==
    IF k > Len(x_array) THEN best - 1
    ELSE ArgMinSignedFrom(x_array, x, k + 1,
            IF x_array[k] - x < x_array[best] - x THEN k ELSE best)

ArgMinSigned(x_array, x) == ArgMinSignedFrom(x_array, x, 2, 1)

\* np.argmin scans the array and keeps the first smallest entry
RECURSIVE ArgMinAbsFrom(_, _, _, _)
ArgMinAbsFrom(x_array, x, k, best) ==
    IF k > Len(x_array) THEN best - 1
    ELSE ArgMinAbsFrom(x_array, x, k + 1,
            IF Abs(x_array[k] - x) < Abs(x_array[best] - x) THEN k ELSE best)

\* np.argmin(np.abs(x_array - x)), a 0-based index
ArgMinAbs(x_array, x) == ArgMinAbsFrom(x_array, x, 2, 1)

\* return x1, y1, x2, y2: reads the module globals, which exist only once
\* lineselect_callback has run in this process
region_interest(sel) ==
    IF sel = <<>> THEN Raised("NameError") ELSE Returned(sel)

\* trimindices after plt.show() has returned
trimindices(x_array, sel) ==
    LET roi == region_interest(sel) IN
    IF roi.exc # "none" THEN roi
    ELSE Returned(<<ArgMinAbs(x_array, roi.val[1]),
                    ArgMinAbs(x_array, roi.val[2])>>)

\* the strictly increasing sequence of the elements of S
RECURSIVE SortedSeq(_)
SortedSeq(S) ==
    IF S = {} THEN <<>>
    ELSE LET m == CHOOSE x \in S : \A y \in S : y <= x IN
         Append(SortedSeq(S \ {m}), m)

\* a spectrometer's wavelength axis: ascending, any spacing
WavelengthArrays == {SortedSeq(S) : S \in (SUBSET (1..MaxWave)) \ {{}}}

\* where the operator can press and release: on, between and beside the
\* samples
SelectionBounds == 0..(MaxWave + 1)

InitTrim ==
    /\ MetaIdle
    /\ EllipsIdle
    /\ NormIdle
    /\ TrimIdle
    /\ FitIdle
    /\ LineIdle
    /\ ScriptIdle

\* trimindices is called: region_interest draws the plot and plt.show()
\* blocks
TrimOpen ==
    /\ tPc = "idle"
    /\ tCalls < MaxCalls
    /\ \E x_array \in WavelengthArrays : tWavelength' = x_array
    /\ tPc' = "show"
    /\ tCalls' = tCalls + 1
    /\ tOut' = Returned(<<>>)
    /\ UNCHANGED <<tSel, notTrim>>

\* the RectangleSelector calls lineselect_callback(eclick, erelease)
lineselect_callback ==
    /\ tPc \in {"show", "selected"}
    /\ \E a \in SelectionBounds, b \in SelectionBounds : tSel' = <<a, b>>
    /\ tPc' = "selected"
    /\ UNCHANGED <<tWavelength, tOut, tCalls, notTrim>>

\* the operator closes the figure: plt.show() returns and trimindices
\* finishes
TrimClose ==
    /\ tPc \in {"show", "selected"}
    /\ tPc' = "idle"
    /\ tOut' = trimindices(tWavelength, tSel)
    /\ UNCHANGED <<tWavelength, tSel, tCalls, notTrim>>

NextTrim == TrimOpen \/ lineselect_callback \/ TrimClose

SpecTrim == InitTrim /\ [][NextTrim]_vars

-----------------------------------------------------------------------------
(* Properties of the region selector *)

TrimReturned == tPc = "idle" /\ tCalls > 0 /\ tOut.exc = "none"

\* index k (0-based) is one whose wavelength is nearest to x
Nearest(x_array, k, x) ==
    /\ k \in 0..(Len(x_array) - 1)
    /\ \A j \in 1..Len(x_array) :
          Abs(x_array[k + 1] - x) <= Abs(x_array[j] - x)

\* C5: trimindices returns the indices whose wavelengths have minimum
\* absolute difference to x1 and to x2; bounds equal to wavelength[i] and
\* wavelength[j] with i < j give exactly (i, j).
C5_TrimIndicesNearest ==
    TrimReturned =>
        /\ Nearest(tWavelength, tOut.val[1], tSel[1])
        /\ Nearest(tWavelength, tOut.val[2], tSel[2])
        /\ \A i, j \in 0..(Len(tWavelength) - 1) :
              (i < j /\ tSel = <<tWavelength[i + 1], tWavelength[j + 1]>>)
                  => tOut.val = <<i, j>>

C5_Witness ==
    /\ TrimReturned
    /\ Len(tWavelength) >= 3
    /\ \E i, j \in 1..(Len(tWavelength) - 1) :
          /\ i < j
          /\ tSel = <<tWavelength[i + 1], tWavelength[j + 1]>>
          /\ tOut.val = <<i, j>>

\* C6: every region of interest produced by trimindices satisfies
\* 0 <= min_index < max_index < len(spectrum).
C6_RegionOrdered ==
    TrimReturned =>
        /\ 0 <= tOut.val[1]
        /\ tOut.val[1] < tOut.val[2]
        /\ tOut.val[2] < Len(tWavelength)

\* C26: the bounds trimindices works from are the ones selected during that
\* call, so a call whose figure is closed before lineselect_callback has run
\* returns no region made of the coordinates of an earlier call
C26_NoStaleSelection ==
    [][(tPc = "show" /\ tPc' = "idle") => tOut'.exc # "none"]_vars

-----------------------------------------------------------------------------
(* Fitter harness: get_fano_parameters, then get_peak_wavelength *)

\* windows of every length up to MaxWin: one sample stands out as the
\* maximum, and one sample may be nan (a sample divided 0/0 upstream)
WindowIntensities(n) ==
    IF n = 0 THEN {<<>>}
    ELSE {[k \in 1..n |-> IF k = q THEN NaN ELSE IF k = p THEN One ELSE Zero] :
             p \in 1..n, q \in 0..n}

InitFit ==
    /\ MetaIdle
    /\ EllipsIdle
    /\ NormIdle
    /\ TrimIdle
    /\ LineIdle
    /\ ScriptIdle
    /\ fVariant \in {"analysis", "chris"}
    /\ \E n \in 0..MaxWin :
          /\ fWavelength = [k \in 1..n |-> k]
          /\ fIntensity \in WindowIntensities(n)
    /\ fPlot \in IF fVariant = "analysis" THEN {"True"} ELSE {"True", "False"}
    /\ fPc = "start"
    /\ fSolver = NoSolver
    /\ fGuess = <<>>
    /\ fFit = Returned(NoFit)
    /\ fAnnot = <<>>
    /\ fPeak = Returned(NoPeak)

\* get_fano_parameters(wavelength, intensity, ...) runs to its end
GetFanoParameters ==
    /\ fPc = "start"
    /\ \E solved \in IF Len(fIntensity) = 0 THEN {NoSolver}
                     ELSE curve_fit(fWavelength, fIntensity) :
          LET r == IF fVariant = "analysis"
                   THEN analysis_get_fano_parameters(
                            fWavelength, fIntensity, solved)
                   ELSE chris_get_fano_parameters(
                            fWavelength, fIntensity, fPlot, solved)
          IN /\ fSolver' = solved
             /\ fFit' = r.out
             /\ fAnnot' = r.annot
    /\ fGuess' = IF Len(fIntensity) = 0 THEN <<>>
                 ELSE initial_guesses(fVariant, fWavelength, fIntensity)
    /\ fPc' = "fitted"
    /\ UNCHANGED <<fVariant, fWavelength, fIntensity, fPlot, fPeak, notFit>>

\* get_peak_wavelength(fano_parameters) on what get_fano_parameters returned
GetPeakWavelength ==
    /\ fPc = "fitted"
    /\ fFit.exc = "none"
    /\ fPeak' = Returned(IF fVariant = "analysis"
                         THEN analysis_get_peak_wavelength(fFit.val)
                         ELSE chris_get_peak_wavelength(fFit.val))
    /\ fPc' = "peak"
    /\ UNCHANGED <<fVariant, fWavelength, fIntensity, fPlot, fSolver, fGuess,
                   fFit, fAnnot, notFit>>

NextFit == GetFanoParameters \/ GetPeakWavelength

SpecFit == InitFit /\ [][NextFit]_vars

-----------------------------------------------------------------------------
(* Properties of the fitter *)

\* C1: when the least-squares solver gives up with its RuntimeError inside
\* get_fano_parameters, that exception does not leave the function, and the
\* fit that is returned has parameter vector [0,0,0,0,0] and error vector
\* [0,0,0,0,0].  analysis.get_fano_parameters always returns then; the only
\* call that does not return is chris.get_fano_parameters asked to plot,
\* which ends in the TypeError of its fanofitplot call, converged or not.
C1_SolverFailureGivesZeros ==
    (fPc # "start" /\ fSolver.kind = "RuntimeError") =>
        /\ fFit.exc # "RuntimeError"
        /\ fFit.exc = "none" \/ (fVariant = "chris" /\ fPlot = "True")
        /\ fFit.exc = "none" =>
              /\ fFit.val.fit = <<0, 0, 0, 0, 0>>
              /\ fFit.val.errors = <<0, 0, 0, 0, 0>>

C1_Witness ==
    /\ fPc = "fitted"
    /\ fSolver.kind = "RuntimeError"
    /\ fVariant = "analysis"
    /\ Len(fIntensity) >= NParams
    /\ fFit.exc = "none"
    /\ fFit.val.fit = <<0, 0, 0, 0, 0>>

\* C3: in the result record the peak wavelength error is the standard error
\* of the parameter reported as the peak wavelength, the resonance centre:
\* the peak is element i of the fit vector and the error is element i of the
\* error vector, for the same i.
C3_PeakErrorMatchesPeak ==
    fPc = "peak" =>
        /\ fPeak.val.peak = fFit.val.fit[CentreIndex(fVariant)]
        /\ fPeak.val.error = fFit.val.errors[CentreIndex(fVariant)]

\* C17: the initial guess for the resonance centre handed to the solver is
\* the wavelength at the index of the greatest intensity of the fit window,
\* and it stands at the position of the centre among the lineshape's
\* parameters (x0 for analysis.fano_resonance, res for
\* chris.fano_resonance).
C17_CentreGuessAtMaximum ==
    (fPc # "start" /\ Len(fIntensity) > 0 /\ AllFinite(fIntensity)) =>
        /\ Len(fGuess) = NParams
        /\ \E k \in 1..Len(fIntensity) :
              /\ \A j \in 1..Len(fIntensity) :
                    ~FloatLess(fIntensity[k], fIntensity[j])
              /\ fGuess[CentreIndex(fVariant)] = fWavelength[k]

C17_Witness ==
    /\ fPc = "fitted"
    /\ fVariant = "chris"
    /\ AllFinite(fIntensity)
    /\ Len(fIntensity) >= NParams
    /\ fSolver.kind = "converged"
    /\ fGuess[3] = fWavelength[Len(fWavelength) - 1]
    /\ fIntensity[Len(fIntensity) - 1] = One

\* C18: chris.get_fano_parameters runs the solver under the bounds it
\* defines, so a successful fit has its centre within 25 of the initial
\* guess and its shape factor within [-10, 10].
C18_FitWithinBounds ==
    (/\ fVariant = "chris"
     /\ fPc # "start"
     /\ fSolver.kind = "converged"
     /\ fFit.exc = "none") =>
        /\ Abs(fFit.val.fit[3] - fGuess[3]) <= CentreBound
        /\ Abs(fFit.val.fit[2]) <= ShapeBound

\* C23: every fit attempt of analysis.get_fano_parameters returns, whatever
\* the window (empty, shorter than 5 samples, with non-finite samples), and
\* what it returns has exactly 5 fit parameters and 5 errors
C23_EveryFitWellFormed ==
    (fPc # "start" /\ fVariant = "analysis") =>
        /\ fFit.exc = "none"
        /\ Len(fFit.val.fit) = NParams
        /\ Len(fFit.val.errors) = NParams

\* C30: for every fit of analysis.py the peak wavelength and the peak error
\* annotated on the Fano-fit plot are the 'Spectrum Peak Wavelength' and the
\* 'Spectrum Peak Error' of the result record
C30_AnnotationMatchesRecord ==
    (fPc = "peak" /\ fVariant = "analysis") =>
        /\ fAnnot[1] = fPeak.val.peak
        /\ fAnnot[2] = fPeak.val.error

-----------------------------------------------------------------------------
(* Lineshape harness: fano_resonance evaluated at bounded arguments *)

LineValues == {Num(v, 1) : v \in -1..MaxLine}

InitLine ==
    /\ MetaIdle
    /\ EllipsIdle
    /\ NormIdle
    /\ TrimIdle
    /\ FitIdle
    /\ ScriptIdle
    /\ lVariant \in {"analysis", "chris"}
    /\ lX \in LineValues
    /\ lParams \in [1..NParams -> LineValues]
    /\ lPc = "start"
    /\ lOut = Zero

\* fano_resonance(x, *params), as curve_fit and the plot call it
EvaluateLineshape ==
    /\ lPc = "start"
    /\ lPc' = "done"
    /\ lOut' = IF lVariant = "analysis"
               THEN fano_resonance(lX, lParams[1], lParams[2], lParams[3],
                                   lParams[4], lParams[5])
               ELSE chris_fano_resonance(lX, lParams[1], lParams[2],
                                         lParams[3], lParams[4], lParams[5])
    /\ UNCHANGED <<lVariant, lX, lParams, notLine>>

NextLine == EvaluateLineshape

SpecLine == InitLine /\ [][NextLine]_vars

\* analysis.fano_resonance was evaluated at its centre x = x0 with q = 0,
\* damping = 0 and a linewidth gamma that is not 0
AtCentreSymmetric ==
    /\ lPc = "done"
    /\ lVariant = "analysis"
    /\ lX = lParams[1]
    /\ lParams[2] # Zero
    /\ lParams[3] = Zero
    /\ lParams[5] = Zero

-----------------------------------------------------------------------------
(* spectrum_peakfinder.py: calc_fanowavelength and the script's loop *)

Files == 1..MaxFiles

\* wavelength[i0:i1], Python's half-open slice of 0-based indices
PySlice(a, i0, i1) == SubSeq(a, i0 + 1, i1)

\* a background file on disk
NoBackground == [exists |-> FALSE, intensity |-> <<>>, time |-> One]

\* calc_fanowavelength up to the normalised intensity (lines 87-112).
\* background_path is the argument's truth value; reading a background file
\* that is not there makes numpy.genfromtxt raise, in the try and again in
\* the except of read_GMR_file
calc_fanowavelength_normalise(raw_intensity, integration_time, background_path, background) ==
    IF background_path
    THEN IF ~background.exists THEN Raised("FileNotFoundError")
         ELSE bg_normal_intensity(raw_intensity, background.intensity,
                                  integration_time, background.time)
    ELSE normalise_intensity(
             timecorrected_intensity(raw_intensity, integration_time).val)

\* a plausible slip: the sample at max_index is taken into the window
FitWindowInclusive(a, roi) == PySlice(a, roi[1], roi[2] + 1)

\* a plausible slip: the result file is never looked for
ResultIsFileNever(f) == FALSE

\* Path(f'{data_path}/{file_name}_Results.json').is_file()
ResultIsFile(f) == f \in resultExists

\* the fit window of calculate_fano_peak for a region of interest
FitWindow(a, roi) == PySlice(a, roi[1], roi[2])

\* calculate_fano_peak after plt.show() has returned (analysis.py lines
\* 400-426), given what curve_fit did: the results dictionary or the
\* exception, with the region, whether the fitter was called and the two
\* arrays it was called with
calculate_fano_peak(wavelength, normalised_intensity, sel, solved) ==
    LET trim_indices == trimindices(wavelength, sel) IN
    IF trim_indices.exc # "none"
    THEN [out |-> trim_indices, roi |-> <<>>, fitted |-> FALSE,
          wavelength |-> <<>>, intensity |-> <<>>]
    ELSE LET w == FitWindow(wavelength, trim_indices.val)
             i == FitWindow(normalised_intensity, trim_indices.val)
             fano == analysis_get_fano_parameters(w, i, solved)
         IN IF fano.out.exc # "none"
            THEN [out |-> fano.out, roi |-> trim_indices.val, fitted |-> TRUE,
                  wavelength |-> w, intensity |-> i]
            ELSE [out |-> Returned(
                     [trim |-> trim_indices.val,
                      fit |-> fano.out.val.fit,
                      errors |-> fano.out.val.errors,
                      peak |-> analysis_get_peak_wavelength(fano.out.val)]),
                  roi |-> trim_indices.val, fitted |-> TRUE,
                  wavelength |-> w, intensity |-> i]

\* the spectrometer's wavelength axis of the script's input files
ScriptAxis == [k \in 1..(MaxWave + 1) |-> k]

\* raw intensities: a flat spectrum with one peak
ScriptRaw ==
    {[k \in 1..Len(ScriptAxis) |-> IF k = p THEN Num(2, 1) ELSE One] :
        p \in {2, Len(ScriptAxis) - 1}}

\* what Path(f'{background_path}/{background_file}') may point at: nothing,
\* a spectrum on the same axis (flat, or with a dark first sample), one that
\* is a sample short, or a single value
ScriptBackgrounds ==
    {NoBackground} \cup
    {[exists |-> TRUE, intensity |-> b, time |-> tb] :
        b \in {[k \in 1..Len(ScriptAxis) |-> One],
               [k \in 1..Len(ScriptAxis) |-> IF k = 1 THEN Zero ELSE One],
               [k \in 1..(Len(ScriptAxis) - 1) |-> One],
               <<One>>},
        tb \in {Zero, One}}

\* get_integration_time of the script's file names: "int0" or "int1000"
ScriptTimes == {Zero, One}

\* the script keeps nothing of a fit but its result file, so one outcome of
\* each kind stands for the solver's outcomes
OneOfEachKind(outcomes) ==
    {CHOOSE s \in outcomes : s.kind = k : k \in {s.kind : s \in outcomes}}

Init ==
    /\ MetaIdle
    /\ EllipsIdle
    /\ NormIdle
    /\ TrimIdle
    /\ FitIdle
    /\ LineIdle
    /\ script \in {"spectrum_peakfinder", "batch_peakfinder",
                   "experimental_peakfinder"}
    /\ pc = "off"
    /\ runs = 0
    /\ idx = 1
    /\ graphPaths = <<>>
    /\ peakDict = [ok |-> TRUE, out_paths |-> <<>>]
    /\ resultExists \in SUBSET Files     \* results of earlier sessions
    /\ writes = [f \in Files |-> 0]
    /\ fits = [f \in Files |-> 0]
    /\ exc = "none"
    /\ last = NoCall

\* the locals of calc_fanowavelength go out of scope
DropLocals ==
    /\ nRaw' = <<>>
    /\ nTime' = One
    /\ nOp' = "none"
    /\ nIn' = <<>>
    /\ nOut' = Returned(<<>>)
    /\ nBg' = <<>>
    /\ nBgTime' = One
    /\ tWavelength' = <<>>
    /\ tPc' = "idle"

\* an exception leaves calc_fanowavelength and the for loop, and ends the
\* process: nothing in the script catches it
Abort(e) ==
    /\ pc' = "off"
    /\ exc' = e
    /\ DropLocals
    /\ tOut' = Returned(<<>>)

\* python spectrum_peakfinder.py: load_json(peak_dictionary.json), then the
\* for loop starts.  A new process has no module globals x1, x2 yet.
StartRun ==
    /\ pc = "off"
    /\ runs < MaxRuns
    /\ runs' = runs + 1
    /\ idx' = 1
    /\ graphPaths' = <<>>
    /\ tSel' = <<>>
    /\ last' = NoCall
    /\ IF script = "spectrum_peakfinder" /\ ~peakDict.ok
       THEN pc' = "off" /\ exc' = "JSONDecodeError"
       ELSE pc' = "loop" /\ exc' = "none"
    /\ UNCHANGED <<normVars, tWavelength, tPc, tOut, tCalls, fitVars, lineVars,
                   metaVars, ellipsVars, script, peakDict, resultExists,
                   writes, fits>>

\* the operator writes peak_dictionary.json anew
RestoreDictionary ==
    /\ pc = "off"
    /\ ~peakDict.ok
    /\ peakDict' = [ok |-> TRUE, out_paths |-> <<>>]
    /\ UNCHANGED <<normVars, trimVars, fitVars, lineVars, metaVars, ellipsVars,
                   script, pc, runs, idx,
                   graphPaths, resultExists, writes, fits, exc, last>>

\* the result file of files[idx] is there: pass
SkipFile ==
    /\ script # "experimental_peakfinder"
    /\ pc = "loop"
    /\ idx \in Files
    /\ ResultIsFile(idx)
    /\ idx' = idx + 1
    /\ UNCHANGED <<normVars, trimVars, fitVars, lineVars, metaVars, ellipsVars,
                   script, pc, runs, graphPaths,
                   peakDict, resultExists, writes, fits, exc, last>>

\* calc_fanowavelength(file_path, ..., background_path=Path(...)) from its
\* start until plt.show() blocks inside region_interest
OpenFile ==
    /\ script = "spectrum_peakfinder"
    /\ pc = "loop"
    /\ idx \in Files
    /\ ~ResultIsFile(idx)
    /\ \E raw \in ScriptRaw, t \in ScriptTimes,
          background \in ScriptBackgrounds :
          LET normalised == calc_fanowavelength_normalise(
                                raw, t, TRUE, background)
              call == [file |-> idx,
                       bg |-> IF background.exists THEN "read" ELSE "missing",
                       norm |-> IF normalised.exc = "none"
                                THEN "background" ELSE "none",
                       roi |-> <<>>, wavelength |-> <<>>,
                       intensity |-> <<>>, solver |-> "not run",
                       exc |-> normalised.exc]
          IN /\ last' = call
             /\ IF normalised.exc # "none"
                THEN Abort(normalised.exc)
                ELSE /\ pc' = "show"
                     /\ exc' = "none"
                     /\ nRaw' = raw
                     /\ nTime' = t
                     /\ nBg' = background.intensity
                     /\ nBgTime' = background.time
                     /\ nOp' = "bg"
                     /\ nIn' = raw
                     /\ nOut' = normalised
                     /\ tWavelength' = ScriptAxis
                     /\ tPc' = "show"
                     /\ tOut' = Returned(<<>>)
    /\ UNCHANGED <<tSel, tCalls, fitVars, lineVars, metaVars, ellipsVars,
                   script, runs, idx, graphPaths,
                   peakDict, resultExists, writes, fits>>

\* plt.show() returns; trimindices, the fit and get_peak_wavelength run,
\* calc_fanowavelength returns, the two figure paths are appended and the
\* result file is saved
CloseFigure ==
    /\ pc = "show"
    /\ LET roi == trimindices(tWavelength, tSel)
           window == IF roi.exc = "none"
                     THEN FitWindow(nOut.val, roi.val) ELSE <<>>
       IN \E solved \in IF Len(window) = 0 THEN {NoSolver}
                        ELSE OneOfEachKind(
                                 curve_fit(FitWindow(tWavelength, roi.val),
                                           window)) :
             LET r == calculate_fano_peak(tWavelength, nOut.val, tSel, solved)
             IN /\ last' = [last EXCEPT !.roi = r.roi,
                                        !.wavelength = r.wavelength,
                                        !.intensity = r.intensity,
                                        !.solver = solved.kind,
                                        !.exc = r.out.exc]
                /\ fits' = IF r.fitted
                           THEN [fits EXCEPT ![idx] = @ + 1] ELSE fits
                /\ IF r.out.exc # "none"
                   THEN /\ Abort(r.out.exc)
                        /\ UNCHANGED <<idx, graphPaths, resultExists, writes>>
                   ELSE /\ pc' = "loop"
                        /\ exc' = "none"
                        /\ DropLocals
                        /\ tOut' = roi
                        /\ graphPaths' = graphPaths \o
                               <<<<idx, "spectrum">>, <<idx, "peak">>>>
                        /\ resultExists' = resultExists \cup {idx}
                        /\ writes' = [writes EXCEPT ![idx] = @ + 1]
                        /\ idx' = idx + 1
    /\ UNCHANGED <<tSel, tCalls, fitVars, lineVars, metaVars, ellipsVars,
                   script, runs, peakDict>>

\* after the loop: save_json_dicts(peak_dictionary.json, out_dict).  The
\* figure paths in out_dict are Path objects, which json.dump hands to
\* convert, which raises TypeError with the file already half written
EndRun ==
    /\ script = "spectrum_peakfinder"
    /\ pc = "loop"
    /\ idx = MaxFiles + 1
    /\ pc' = "off"
    /\ IF graphPaths = <<>>
       THEN /\ peakDict' = [ok |-> TRUE, out_paths |-> <<>>]
            /\ exc' = "none"
       ELSE /\ peakDict' = [ok |-> FALSE, out_paths |-> <<>>]
            /\ exc' = "TypeError"
    /\ UNCHANGED <<normVars, trimVars, fitVars, lineVars, metaVars, ellipsVars,
                   script, runs, idx,
                   graphPaths, resultExists, writes, fits, last>>

\* batch_peakfinder.py, batch_calculate_peak_wavelength lines 42-66: the
\* normalised intensity of one file, with the background find_background
\* found or with none
batch_normalise(raw_intensity, integration_time, background) ==
    IF ~background.exists
    THEN normalise_intensity(
             timecorrected_intensity(raw_intensity, integration_time).val)
    ELSE bg_normal_intensity(raw_intensity, background.intensity,
                             integration_time, background.time)

\* batch_peakfinder.py: the batch idx has no <batch>_Peak.json, so
\* batch_calculate_peak_wavelength starts on the batch's first file.  After
\* the normalisation it calls plot.spectrumplt (line 68), which
\* src/plotting.py does not define: AttributeError, and the process ends
\* before any fit and before the batch's result is saved
BatchCalculate ==
    /\ script = "batch_peakfinder"
    /\ pc = "loop"
    /\ idx \in Files
    /\ ~ResultIsFile(idx)
    /\ \E raw \in ScriptRaw, t \in ScriptTimes,
          background \in ScriptBackgrounds :
          LET normalised == batch_normalise(raw, t, background) IN
          /\ last' = [file |-> idx,
                      bg |-> IF background.exists THEN "read" ELSE "missing",
                      norm |-> IF normalised.exc # "none" THEN "none"
                               ELSE IF background.exists THEN "background"
                               ELSE "max",
                      roi |-> <<>>, wavelength |-> <<>>,
                      intensity |-> <<>>, solver |-> "not run",
                      exc |-> IF normalised.exc # "none" THEN normalised.exc
                              ELSE "AttributeError"]
          /\ Abort(last'.exc)
    /\ UNCHANGED <<tSel, tCalls, fitVars, lineVars, metaVars, ellipsVars,
                   script, runs, idx, graphPaths,
                   peakDict, resultExists, writes, fits>>

\* batch_peakfinder.py: the loop over the batches is done and the script
\* ends
BatchEnd ==
    /\ script = "batch_peakfinder"
    /\ pc = "loop"
    /\ idx = MaxFiles + 1
    /\ pc' = "off"
    /\ exc' = "none"
    /\ UNCHANGED <<normVars, trimVars, fitVars, lineVars, metaVars, ellipsVars,
                   script, runs, idx,
                   graphPaths, peakDict, resultExists, writes, fits, last>>

\* experimental_peakfinder.py, lines 27-30: the loop takes up its first file
\* (there is no look for an earlier result) and calls io.read_GMRX_file,
\* which src/fileIO.py does not define: AttributeError, and the process ends
\* before the selection of line 36, the normalisation of lines 41-63 and
\* the fit of line 66.  (The import of src.GUI, which is not among the
\* sources, is taken to succeed.)
ExperimentalCalculate ==
    /\ script = "experimental_peakfinder"
    /\ pc = "loop"
    /\ idx \in Files
    /\ last' = [NoCall EXCEPT !.file = idx, !.exc = "AttributeError"]
    /\ Abort("AttributeError")
    /\ UNCHANGED <<tSel, tCalls, fitVars, lineVars, metaVars, ellipsVars,
                   script, runs, idx, graphPaths,
                   peakDict, resultExists, writes, fits>>

Next ==
    \/ StartRun
    \/ RestoreDictionary
    \/ SkipFile
    \/ OpenFile
    \/ lineselect_callback
    \/ CloseFigure
    \/ EndRun
    \/ BatchCalculate
    \/ BatchEnd
    \/ ExperimentalCalculate

Spec == Init /\ [][Next]_vars

-----------------------------------------------------------------------------
(* properties of the scripts *)

\* C2: a failure while processing one file is reported for that file and
\* processing continues, so a run that met a failure on a file has still
\* gone through every file of the batch when it ends
C2_FailureDoesNotStopBatch ==
    (pc = "off" /\ last.file # 0 /\ last.exc # "none") => idx = MaxFiles + 1

\* C4: across runs, an input whose result artifact exists is not fitted
\* again and its result file is not written again (and stays), so each
\* result file is written at most once
C4_ExistingResultSkipped ==
    /\ [][\A f \in Files :
            f \in resultExists =>
                /\ fits'[f] = fits[f]
                /\ writes'[f] = writes[f]
                /\ f \in resultExists']_vars
    /\ [](\A f \in Files : writes[f] <= 1)

\* a second run has passed file 1, whose result the first run wrote, without
\* calling calc_fanowavelength
C4_Witness ==
    /\ script = "spectrum_peakfinder"
    /\ runs = 2
    /\ pc = "loop"
    /\ idx = 2
    /\ last = NoCall
    /\ writes[1] = 1
    /\ fits[1] = 1

\* C7: when no background spectrum matches an input the pipeline does not
\* fail: the time-corrected intensity is max-normalised and the pipeline
\* goes on
C7_NoBackgroundFallsBack ==
    last.bg = "missing" =>
        /\ last.norm = "max"
        /\ last.exc \notin {"FileNotFoundError", "AttributeError"}

\* C21: batch_calculate_peak_wavelength returns a dictionary holding every
\* file's own trim index, fit parameters and fit errors; so a batch whose
\* first file normalised has not ended in an exception
C21_BatchReturnsEveryFile ==
    (script = "batch_peakfinder" /\ last.file # 0 /\ last.norm # "none") =>
        last.exc = "none"

\* C24: calculate_fano_peak hands the fitter exactly the samples at indices
\* min_index .. max_index-1 of the wavelength and of the normalised
\* intensity: the sample at max_index is left out and the two sub-arrays
\* have the same length
C24_FitWindowHalfOpen ==
    [][fits' # fits =>
          LET min_index == last'.roi[1]
              max_index == last'.roi[2]
              n == IF max_index > min_index THEN max_index - min_index ELSE 0
          IN /\ Len(last'.wavelength) = n
             /\ Len(last'.intensity) = n
             /\ \A k \in 1..n :
                   /\ last'.wavelength[k] = tWavelength[min_index + k]
                   /\ last'.intensity[k] = nOut.val[min_index + k]]_vars

\* the operator selected from the first to the last sample: five samples
\* were fitted, the last one was not
C24_Witness ==
    /\ script = "spectrum_peakfinder"
    /\ last.roi = <<0, 5>>
    /\ last.wavelength = <<1, 2, 3, 4, 5>>
    /\ Len(last.intensity) = 5
    /\ last.solver = "converged"
    /\ last.exc = "none"

\* C25: in every pipeline variant each input that is taken up is normalised,
\* then its region is selected on the normalised intensity, then the fit
\* runs on that intensity.  So, unless the input's data or the operator made
\* a step raise, an input the script is through with has been normalised,
\* selected and fitted
C25_NormaliseSelectFit ==
    (last.file # 0 /\ pc # "show" /\ last.exc \in {"none", "AttributeError"}) =>
        /\ last.norm # "none"
        /\ last.roi # <<>>
        /\ last.solver # "not run"

\* C28: after a run of the spectrum peak-finder that went through every
\* file, peak_dictionary.json is readable and its out_paths hold the spectrum
\* and peak figure paths of every input that has a result file
C28_OutPathsKeepEveryResult ==
    (script = "spectrum_peakfinder" /\ pc = "off" /\ runs > 0
        /\ idx = MaxFiles + 1) =>
        /\ peakDict.ok
        /\ \A f \in resultExists :
               \E i, j \in 1..Len(peakDict.out_paths) :
                   /\ peakDict.out_paths[i] = <<f, "spectrum">>
                   /\ peakDict.out_paths[j] = <<f, "peak">>

-----------------------------------------------------------------------------
(* filepaths.py: what a file name says.  A file name is the sequence of its *)
(* parts between '_' (file_name.split('_')), a part a sequence of           *)
(* characters.                                                              *)

MaxTokens == 2
MaxBg == 2

\* sub in string, for two Python strings
Contains(string, sub) ==
    \E i \in 0..(Len(string) - Len(sub)) :
        SubSeq(string, i + 1, i + Len(sub)) = sub

Digits == <<"0", "1", "2", "3", "4", "5", "6", "7", "8", "9">>

IsDigits(text) ==
    /\ text # <<>>
    /\ \A k \in 1..Len(text) : \E d \in 1..10 : Digits[d] = text[k]

\* the number a text of decimal digits denotes
RECURSIVE DecimalValue(_)
DecimalValue(text) ==
    IF text = <<>> THEN 0
    ELSE 10 * DecimalValue(SubSeq(text, 1, Len(text) - 1))
             + (CHOOSE d \in 0..9 : Digits[d + 1] = text[Len(text)])

\* float(text), for texts of digits and letters: the number, or ValueError
\* for the empty text and for a text with a letter in it
float(text) ==
    IF IsDigits(text) THEN Returned(Num(DecimalValue(text), 1))
    ELSE Raised("ValueError")

\* get_integration_time (filepaths.py lines 214-225)
get_integration_time(file_split) ==
    LET HasInt(string) == Contains(string, <<"i", "n", "t">>)
        HasMs(string) == Contains(string, <<"m", "s">>)
        int_time_string == SelectSeq(file_split, HasInt)
        ms_time_string == SelectSeq(file_split, HasMs)
        time_string == int_time_string \o ms_time_string
    IN IF Len(time_string) = 0
       THEN Returned(Num(1000, 1))
       ELSE LET time == time_string[1]
                text == IF HasInt(time)
                        THEN SubSeq(time, 4, Len(time))
                        ELSE SubSeq(time, 1, Len(time) - 2)
                number == float(text)
            IN IF number.exc # "none" THEN number
               ELSE Returned(FloatDiv(number.val, Num(1000, 1)))

\* get_polarisation (lines 265-273); the 0 it returns for a name without
\* polarisation is the empty sequence here
get_polarisation(file_split) ==
    LET HasTE(string) == Contains(string, <<"T", "E">>)
        HasTM(string) == Contains(string, <<"T", "M">>)
        polarisations == SelectSeq(file_split, HasTE)
                             \o SelectSeq(file_split, HasTM)
    IN IF Len(polarisations) = 0 THEN <<>> ELSE polarisations[1]

\* sample_information of a file in a directory named parent_directory,
\* 'Spectrum' or 'Background' (lines 343-355 and 425-431), with the keys
\* f'{parent_directory} ...' as fields
sample_information(file_split, parent_directory) ==
    LET integration == get_integration_time(file_split) IN
    IF integration.exc # "none" THEN integration
    ELSE IF Len(file_split) < 2 THEN Raised("IndexError")
    ELSE Returned([parent |-> parent_directory,
                   name |-> file_split,
                   primary |-> file_split[1],
                   time |-> integration.val,
                   polarisation |-> get_polarisation(file_split)])

NoBGFile == [background_file |-> <<>>, bg_details |-> <<>>, failed |-> TRUE]

\* the for loop of find_background (lines 477-486) from file k on
RECURSIVE find_background_from(_, _, _, _, _)
find_background_from(background_files, sample_details, k, background_file, bg_details) ==
    IF k > Len(background_files)
    THEN [background_file |-> background_file, bg_details |-> bg_details,
          failed |-> FALSE]
    ELSE LET bg_info == sample_information(background_files[k], "Background")
         IN IF bg_info.exc # "none"
            THEN NoBGFile      \* except: whatever was raised
            ELSE IF /\ bg_info.val.primary = sample_details.primary
                    /\ bg_info.val.polarisation = sample_details.polarisation
                 THEN find_background_from(
                          background_files, sample_details, k + 1,
                          Append(background_file, background_files[k]),
                          bg_info.val)
                 ELSE find_background_from(
                          background_files, sample_details, k + 1,
                          background_file, bg_details)

\* find_background (lines 469-491): the paths of the matching files and
\* bg_details, which every match updates
find_background(background_files, sample_details) ==
    find_background_from(background_files, sample_details, 1, <<>>, <<>>)

\* batch_calculate_peak_wavelength, lines 45-66: which background the
\* normalisation of one sample is given
batch_background(file_split, background_files) ==
    LET sample_parameters == sample_information(file_split, "Spectrum") IN
    IF sample_parameters.exc # "none" THEN sample_parameters
    ELSE LET found == find_background(background_files,
                                      sample_parameters.val)
         IN IF Len(found.background_file) = 0
            THEN Returned([background_file |-> <<>>,
                           background_integration_time |-> One])
            ELSE Returned(
                     [background_file |-> found.background_file[1],
                      background_integration_time |-> found.bg_details.time])

\* parts of file names
Tokens ==
    {<<"A", "1">>, <<"T", "E">>, <<"i", "n", "t", "8", "0">>,
     <<"8", "0", "m", "s">>, <<"i", "n", "t", "1", "0", "0", "0">>,
     <<"i", "n", "t">>, <<"P", "r", "i", "n", "t", "5">>,
     <<"i", "n", "t", "5", "m", "s">>}

FileNames == UNION {[1..n -> Tokens] : n \in 1..MaxTokens}

\* the characters of the file names, in the order of their code points
CodePoints ==
    <<".", "0", "1", "2", "3", "4", "5", "6", "7", "8", "9", "A", "E", "G",
      "M", "P", "T", "_", "a", "g", "i", "m", "n", "r", "s", "t", "x">>

Ord(c) == CHOOSE k \in 1..Len(CodePoints) : CodePoints[k] = c

\* '_'.join(file_split) + '.txt': the name of the file in its directory
RECURSIVE FileName(_)
FileName(file_split) ==
    IF Len(file_split) = 1 THEN file_split[1] \o <<".", "t", "x", "t">>
    ELSE file_split[1] \o <<"_">> \o FileName(Tail(file_split))

\* a < b for two Python strings
RECURSIVE StrLess(_, _)
StrLess(a, b) ==
    IF b = <<>> THEN FALSE
    ELSE IF a = <<>> THEN TRUE
    ELSE IF a[1] # b[1] THEN Ord(a[1]) < Ord(b[1])
    ELSE StrLess(Tail(a), Tail(b))

\* extractfile (lines 56-57): sorted(os.listdir(directory_path)), every
\* file of the directory being a '.txt' file
RECURSIVE extractfile(_)
extractfile(files) ==
    IF files = {} THEN <<>>
    ELSE LET first == CHOOSE f \in files :
                          \A g \in files \ {f} :
                              StrLess(FileName(f), FileName(g))
         IN <<first>> \o extractfile(files \ {first})

\* background files of the kind the README names, "A1_TE_int80"
BackgroundNames ==
    {<<<<"A", "1">>, pol, time>> :
        pol \in {<<"T", "E">>, <<"T", "M">>},
        time \in {<<"i", "n", "t", "8", "0">>, <<"5", "m", "s">>}}

SampleNames ==
    {<<<<"A", "1">>, <<"G", "r", "a", "t", "i", "n", "g">>, pol,
       <<"i", "n", "t", "8", "0">>>> : pol \in {<<"T", "E">>, <<"T", "M">>}}

InitMeta ==
    /\ NormIdle
    /\ TrimIdle
    /\ FitIdle
    /\ LineIdle
    /\ ScriptIdle
    /\ EllipsIdle
    /\ mOp \in {"time", "background"}
    /\ IF mOp = "time"
       THEN mName \in FileNames /\ mDir = <<>>
       ELSE /\ mName \in SampleNames
            /\ \E files \in SUBSET BackgroundNames :
                   /\ Cardinality(files) <= MaxBg
                   /\ mDir = extractfile(files)
    /\ mPc = "start"
    /\ mOut = Returned(<<>>)

GetIntegrationTime ==
    /\ mOp = "time"
    /\ mPc = "start"
    /\ mOut' = get_integration_time(mName)
    /\ mPc' = "done"
    /\ UNCHANGED <<mOp, mName, mDir, notMeta>>

FindBackground ==
    /\ mOp = "background"
    /\ mPc = "start"
    /\ mOut' = batch_background(mName, mDir)
    /\ mPc' = "done"
    /\ UNCHANGED <<mOp, mName, mDir, notMeta>>

NextMeta == GetIntegrationTime \/ FindBackground

SpecMeta == InitMeta /\ [][NextMeta]_vars

\* a part 'intN' or 'Nms' with N a decimal number, and its N
IsTimeToken(string) ==
    \/ /\ Len(string) > 3
       /\ SubSeq(string, 1, 3) = <<"i", "n", "t">>
       /\ IsDigits(SubSeq(string, 4, Len(string)))
    \/ /\ Len(string) > 2
       /\ SubSeq(string, Len(string) - 1, Len(string)) = <<"m", "s">>
       /\ IsDigits(SubSeq(string, 1, Len(string) - 2))

TokenMilliseconds(string) ==
    IF IsDigits(SubSeq(string, 1, 1))
    THEN DecimalValue(SubSeq(string, 1, Len(string) - 2))
    ELSE DecimalValue(SubSeq(string, 4, Len(string)))

\* C22: get_integration_time returns seconds: N/1000 for a file name with a
\* part 'intN' or 'Nms', and 1 for a file name with no such part
C22_IntegrationTimeInSeconds ==
    (mOp = "time" /\ mPc = "done") =>
        LET tokens == {k \in 1..Len(mName) : IsTimeToken(mName[k])} IN
        /\ mOut.exc = "none"
        /\ IF tokens = {} THEN mOut.val = One
           ELSE \E k \in tokens :
                    mOut.val = Num(TokenMilliseconds(mName[k]), 1000)

\* C27: when background files match a sample, the background integration
\* time its normalisation is given is the one of the file whose intensity it
\* is given
C27_BackgroundTimeOfSameFile ==
    (mOp = "background" /\ mPc = "done" /\ mOut.exc = "none"
        /\ mOut.val.background_file # <<>>) =>
        mOut.val.background_integration_time =
            get_integration_time(mOut.val.background_file).val

-----------------------------------------------------------------------------
(* spectroscopic_ellipsometry.py: woollamVASE, from the fit file to the     *)
(* data file.  The arithmetic of the material models is not modelled: the   *)
(* value a model gives a quantity at a wavelength is the term               *)
(* <<model, quantity, wavelength>>.                                         *)

Implemented == {"Cauchy", "Graded", "Parameterised"}

\* lines 60-87: n, k, eps_real and eps_imag of the model named in the fit
\* file, each a list with one value per wavelength (the list comprehensions
\* of cauchy_fits, epsilon, graded_material, parameterised_materials and
\* comp_RI), or four empty lists
model_arrays(model, wavelength) ==
    LET quantity(q) ==
            IF model \in Implemented
            THEN [i \in 1..Len(wavelength) |-> <<model, q, wavelength[i]>>]
            ELSE <<>>
    IN [n |-> quantity("n"), k |-> quantity("k"),
        eps_real |-> quantity("eps_real"), eps_imag |-> quantity("eps_imag")]

\* zip(n, k, eps_real, eps_imag): an iterator, modelled by the items it has
\* yet to yield
zip(n, k, eps_real, eps_imag) ==
    [i \in 1..Len(n) |-> <<n[i], k[i], eps_real[i], eps_imag[i]>>]

\* list(iterator): the list of the items left, and the iterator after it,
\* which has none left
list(iterator) == [value |-> iterator, iterator |-> <<>>]

\* ellips_save (fileIO.py lines 279-282): the rows written, the header and
\* one row with a field for every item data yields
ellips_save(data) == <<<<"n", "k", "eps_real", "eps_imaginary">>, data>>

\* woollamVASE, lines 57-101 and 123-127: what ellips_save is given, the
\* data file and out_files["data_path"]
woollamVASE(fit_file, model, wavelength) ==
    IF ~fit_file
    THEN [data |-> <<>>, file |-> <<>>,
          data_path |-> "Data Not Processed Correctly"]
    ELSE LET m == model_arrays(model, wavelength)
             arrays == zip(m.n, m.k, m.eps_real, m.eps_imag)
             listed == list(arrays)       \* if not list(arrays):
         IN IF listed.value = <<>>
            THEN [data |-> <<>>, file |-> <<>>,
                  data_path |-> "Model Not Implemented"]
            ELSE [data |-> listed.iterator,
                  file |-> ellips_save(listed.iterator),
                  data_path |-> "_Data.txt"]

InitEllips ==
    /\ NormIdle
    /\ TrimIdle
    /\ FitIdle
    /\ LineIdle
    /\ ScriptIdle
    /\ MetaIdle
    /\ eModel \in Implemented \cup {"Other"}
    /\ eFitFile \in BOOLEAN
    /\ eWavelength \in WavelengthArrays \cup {<<>>}
    /\ ePc = "start"
    /\ eData = <<>>
    /\ eFile = <<>>
    /\ eOut = ""

WoollamVASE ==
    /\ ePc = "start"
    /\ LET out == woollamVASE(eFitFile, eModel, eWavelength) IN
       /\ eData' = out.data
       /\ eFile' = out.file
       /\ eOut' = out.data_path
    /\ ePc' = "done"
    /\ UNCHANGED <<eModel, eFitFile, eWavelength, notEllips>>

NextEllips == WoollamVASE

SpecEllips == InitEllips /\ [][NextEllips]_vars

\* C29: when woollamVASE evaluates an implemented model over a non-empty
\* wavelength list, what ellips_save is handed and writes to the data file
\* holds the n, k, eps_real and eps_imag values, one tuple per wavelength
C29_DataFileHoldsValues ==
    (ePc = "done" /\ eFitFile /\ eModel \in Implemented
        /\ eWavelength # <<>>) =>
        /\ Len(eData) = Len(eWavelength)
        /\ \A i \in 1..Len(eData) :
               eData[i] = <<<<eModel, "n", eWavelength[i]>>,
                            <<eModel, "k", eWavelength[i]>>,
                            <<eModel, "eps_real", eWavelength[i]>>,
                            <<eModel, "eps_imag", eWavelength[i]>>>>
        /\ Len(eFile) = 2
        /\ eFile[2] = eData

====
